---- MODULE Spec2Model ----
(***************************************************************************)
(* Model of src/app/utils/lazer/replayURCalc.py: a command-line adapter    *)
(* that resolves a replay path, loads circleguard, computes the unstable   *)
(* rate and writes one JSON object to stdout before exiting.               *)
(*                                                                         *)
(* Two invocations of the program are run side by side.  They share argv,  *)
(* the file system and the installed library and differ at most in the     *)
(* process environment (CIRCLEGUARD_KEY).  main is straight-line code, so  *)
(* each action advances every invocation that stands at its statement.     *)
(***************************************************************************)
EXTENDS Integers, Sequences, FiniteSets, TLC

VARIABLES argv, fsOutcome, importOutcome, sigOutcome, environ, proc

vars == <<argv, fsOutcome, importOutcome, sigOutcome, environ, proc>>

Runs == {1, 2}

(* largest whole UR value the library returns in the model *)
MaxUR == 1

-----------------------------------------------------------------------------
(* Exceptions.  name is the Python class, msg is str(exc), code the        *)
(* SystemExit status.                                                      *)

NoExc == [name |-> "None", msg |-> "", code |-> 0]

Exc(n, m) == [name |-> n, msg |-> m, code |-> 0]

SystemExit(c) == [name |-> "SystemExit", msg |-> ToString(c), code |-> c]

(* classes that derive from BaseException but not from Exception *)
BaseOnly == {"SystemExit", "KeyboardInterrupt", "GeneratorExit"}

(* `except Exception` matches e *)
IsException(e) == e.name \notin BaseOnly

(* what circleguard raises: errors deriving from Exception, with or        *)
(* without a message                                                       *)
LibExcs == {Exc("RuntimeError", "boom"), Exc("RuntimeError", "")}

-----------------------------------------------------------------------------
(* Paths are sequences of components; "/" as first component is the root.  *)

HomeDir == <<"/", "home", "u">>

Cwd == <<"/", "work">>

Paths == { <<"~", "r.osr">>, <<"~ghost", "r.osr">>,
           <<"/", "tmp", "r.osr">>, <<"r.osr">> }

RECURSIVE Join(_)
Join(p) ==
  IF p = <<>> THEN ""
  ELSE IF Len(p) = 1 THEN p[1]
  ELSE p[1] \o "/" \o Join(Tail(p))

(* str(Path) *)
PathStr(p) ==
  IF p # <<>> /\ p[1] = "/" THEN "/" \o Join(Tail(p)) ELSE Join(p)

(* Path.expanduser(): "~" is the caller's home, "~name" the home of name;  *)
(* RuntimeError when the home cannot be determined.                        *)
expanduser(p) ==
  IF p # <<>> /\ p[1] = "~" THEN [exc |-> NoExc, path |-> HomeDir \o Tail(p)]
  ELSE IF p # <<>> /\ p[1] = "~ghost"
       THEN [exc |-> Exc("RuntimeError", "Could not determine home directory."),
             path |-> p]
  ELSE [exc |-> NoExc, path |-> p]

(* Path.resolve(strict=True) under the file-system outcome fs *)
resolve(p, fs) ==
  IF fs = "ok"
  THEN [exc |-> NoExc,
        path |-> IF p # <<>> /\ p[1] = "/" THEN p ELSE Cwd \o p]
  ELSE [exc |-> Exc(fs, "[Errno] " \o PathStr(p)), path |-> p]

FsOutcomes == {"ok", "FileNotFoundError", "NotADirectoryError"}

-----------------------------------------------------------------------------
(* JSON.  A payload is a sequence of <<key, value>> in insertion order.    *)

JStr(s) == [t |-> "string", s |-> s, n |-> 0, items |-> <<>>]
JNull == [t |-> "null", s |-> "", n |-> 0, items |-> <<>>]
(* a list of strings *)
JList(items) == [t |-> "list", s |-> "", n |-> 0, items |-> items]
(* a float, held in tenths *)
JFloat(tenths) == [t |-> "float", s |-> "", n |-> tenths, items |-> <<>>]
JNaN == [t |-> "nan", s |-> "", n |-> 0, items |-> <<>>]
JInf == [t |-> "inf", s |-> "", n |-> 0, items |-> <<>>]

(* float.__repr__ *)
FloatRepr(tenths) == ToString(tenths \div 10) \o "." \o ToString(tenths % 10)

RECURSIVE DumpsList(_)
DumpsList(items) ==
  IF items = <<>> THEN ""
  ELSE "\"" \o items[1] \o "\""
       \o (IF Len(items) = 1 THEN "" ELSE ", " \o DumpsList(Tail(items)))

DumpsValue(v) ==
  CASE v.t = "string" -> "\"" \o v.s \o "\""
    [] v.t = "null"   -> "null"
    [] v.t = "list"   -> "[" \o DumpsList(v.items) \o "]"
    [] v.t = "float"  -> FloatRepr(v.n)
    [] v.t = "nan"    -> "NaN"
    [] v.t = "inf"    -> "Infinity"

RECURSIVE DumpsItems(_)
DumpsItems(items) ==
  IF items = <<>> THEN ""
  ELSE "\"" \o items[1][1] \o "\": " \o DumpsValue(items[1][2])
       \o (IF Len(items) = 1 THEN "" ELSE ", " \o DumpsItems(Tail(items)))

(* json.dumps(payload) *)
dumps(payload) == "{" \o DumpsItems(payload) \o "}"

-----------------------------------------------------------------------------
(* Values cg.ur can return and float() of them.                            *)

PyNone == [t |-> "None", n |-> 0]
PyInt(k) == [t |-> "int", n |-> k]
PyFloat(tenths) == [t |-> "float", n |-> tenths]
PyNaN == [t |-> "nan", n |-> 0]
PyInf == [t |-> "inf", n |-> 0]
PyStr == [t |-> "str", n |-> 0]
PyBigInt == [t |-> "bigint", n |-> 0]

UrValues == {PyNone, PyNaN, PyInf, PyStr, PyBigInt}
            \cup {PyInt(k) : k \in 0..MaxUR}
            \cup {PyFloat(t) : t \in {5, 10 * MaxUR + 5}}

(* float(v): the JSON float it yields, or the exception it raises *)
float(v) ==
  CASE v.t = "int"    -> [exc |-> NoExc, val |-> JFloat(10 * v.n)]
    [] v.t = "float"  -> [exc |-> NoExc, val |-> JFloat(v.n)]
    [] v.t = "nan"    -> [exc |-> NoExc, val |-> JNaN]
    [] v.t = "inf"    -> [exc |-> NoExc, val |-> JInf]
    [] v.t = "str"    -> [exc |-> Exc("ValueError",
                                     "could not convert string to float"),
                          val |-> JNull]
    [] v.t = "bigint" -> [exc |-> Exc("OverflowError",
                                     "int too large to convert to float"),
                          val |-> JNull]
    [] v.t = "None"   -> [exc |-> Exc("TypeError",
                                     "float() argument must be a string or a real number"),
                          val |-> JNull]

-----------------------------------------------------------------------------
(* Environment and constructor signatures.                                 *)

Keys == {"", "k1", "k2"}

Environs == { <<>> } \cup { [v \in {"CIRCLEGUARD_KEY"} |-> k] : k \in Keys }

(* an optional string: Python None or a str *)
OptNone == [isNone |-> TRUE, s |-> ""]
OptStr(s) == [isNone |-> FALSE, s |-> s]

(* os.environ.get(name) *)
environ_get(env, name) ==
  IF name \in DOMAIN env THEN OptStr(env[name]) ELSE OptNone

(* What inspect.signature(Circleguard) does: it raises, or it returns the  *)
(* constructor's parameters (name, and whether the parameter has a         *)
(* default).                                                               *)
Param(n, d) == [name |-> n, hasDefault |-> d]

Sig(raises, ps) == [raises |-> raises, params |-> ps]

Signatures == { Sig(FALSE, {}), Sig(FALSE, {Param("key", FALSE)}),
                Sig(FALSE, {Param("key", TRUE)}),
                Sig(FALSE, {Param("db_path", TRUE)}), Sig(TRUE, {}) }

-----------------------------------------------------------------------------
(* One invocation.  steps, raised, ctorCalls, rpCalls and urCalls record   *)
(* what the run did; the other fields are main's locals and the process's  *)
(* stdout and exit status (-1 while it runs).                              *)

Script == <<"replayURCalc.py">>

Argvs == { <<Script>> } \cup { <<Script, p>> : p \in Paths }
         \cup { <<Script, <<"r.osr">>, <<"extra">> >> }

InitProc ==
  [pc |-> "argv", stdout |-> <<>>, emitted |-> <<>>, exitCode |-> -1,
   uncaught |-> NoExc, steps |-> <<>>, raised |-> <<>>,
   replay_path |-> <<>>, params |-> {}, env_key |-> OptNone,
   ctorCalls |-> <<>>, rpCalls |-> <<>>, urCalls |-> 0, ur_value |-> PyNone]

Init ==
  /\ argv \in Argvs
  /\ fsOutcome \in FsOutcomes
  /\ importOutcome \in {NoExc, Exc("ImportError", "No module named circleguard")}
  /\ sigOutcome \in Signatures
  /\ environ \in [Runs -> Environs]
  /\ proc = [i \in Runs |-> InitProc]

(* statement `step` starts executing *)
At(r, step) == [r EXCEPT !.steps = Append(@, step)]

(* statement `step` raises e *)
Raise(r, step, e) == [r EXCEPT !.raised = Append(@, <<step, e>>)]

(* sys.stdout.write(json.dumps(payload)); sys.stdout.flush() *)
write(r, payload) ==
  [r EXCEPT !.stdout = Append(@, dumps(payload)),
            !.emitted = Append(@, payload)]

(* An exception leaves main: SystemExit ends the process with its code,    *)
(* anything else is printed to stderr by the interpreter, which exits 1.   *)
Uncaught(r, e) ==
  IF e.name = "SystemExit"
  THEN [r EXCEPT !.pc = "done", !.exitCode = e.code]
  ELSE [r EXCEPT !.pc = "done", !.exitCode = 1, !.uncaught = e]

(* emit() called where no handler encloses the call *)
emit(r, payload, exit_code) == Uncaught(write(r, payload), SystemExit(exit_code))

ur_failed(e) ==
  << <<"error", JStr("ur_failed")>>, <<"detail", JStr(e.msg)>>,
     <<"trace", JStr("Traceback (most recent call last): "
                     \o e.name \o ": " \o e.msg)>> >>

(* variant: a bare `except:` that also intercepts SystemExit *)
except_Exception_bare(r, e) == emit(r, ur_failed(e), 1)

(* the handler of the try block of lines 46-78: e was raised inside it *)
except_Exception(r, e) ==
  IF IsException(e) THEN emit(r, ur_failed(e), 1) ELSE Uncaught(r, e)

(* emit() called inside that try block *)
emit_in_try(r, payload, exit_code) ==
  except_Exception(write(r, payload), SystemExit(exit_code))

(* variant: the payload lists sys.argv instead of sys.argv[1:] *)
check_argv_whole(r) ==
  LET r1 == At(r, "argv") IN
  IF Len(argv) < 2
  THEN emit(r1, << <<"error", JStr("missing_replay_path")>>,
                   <<"argv", JList([k \in 1..Len(argv) |-> PathStr(argv[k])])>> >>, 1)
  ELSE [r1 EXCEPT !.pc = "resolve"]

(* lines 24-25 *)
check_argv(r) ==
  LET r1 == At(r, "argv") IN
  IF Len(argv) < 2
  THEN emit(r1, << <<"error", JStr("missing_replay_path")>>,
                   <<"argv", JList([k \in 1..(Len(argv) - 1) |->
                                      PathStr(argv[k + 1])])>> >>, 1)
  ELSE [r1 EXCEPT !.pc = "resolve"]

(* lines 27-31 *)
resolve_path(r) ==
  LET r1 == At(r, "resolve")
      ex == expanduser(argv[2])
      rs == resolve(ex.path, fsOutcome)
  IN IF ex.exc # NoExc THEN Uncaught(Raise(r1, "resolve", ex.exc), ex.exc)
     ELSE IF rs.exc = NoExc
          THEN [r1 EXCEPT !.replay_path = rs.path, !.pc = "import"]
     ELSE IF rs.exc.name = "FileNotFoundError"
          THEN emit([Raise(r1, "resolve", rs.exc) EXCEPT !.replay_path = ex.path],
                    << <<"error", JStr("replay_not_found")>>,
                       <<"path", JStr(PathStr(ex.path))>> >>, 1)
     ELSE Uncaught(Raise(r1, "resolve", rs.exc), rs.exc)

(* lines 33-44 *)
import_circleguard(r) ==
  LET r1 == At(r, "import")
      e == importOutcome
  IN IF e = NoExc THEN [r1 EXCEPT !.pc = "signature"]
     ELSE IF IsException(e)
          THEN emit(Raise(r1, "import", e),
                    << <<"error", JStr("import_failed")>>,
                       <<"detail", JStr(e.msg)>>,
                       <<"python", JStr("/usr/bin/python3")>>,
                       <<"version", JStr("3.11.6")>> >>, 1)
     ELSE Uncaught(Raise(r1, "import", e), e)

(* lines 49-53 *)
inspect_signature(r) ==
  LET r1 == At(r, "signature") IN
  IF sigOutcome.raises
  THEN [Raise(r1, "signature", Exc("ValueError", "no signature found"))
          EXCEPT !.params = {}, !.pc = "key"]
  ELSE [r1 EXCEPT !.params = {p.name : p \in sigOutcome.params}, !.pc = "key"]

(* lines 55-62 *)
key_check(r, env) ==
  IF "key" \in r.params
  THEN LET env_key == environ_get(env, "CIRCLEGUARD_KEY")
           r1 == [At(r, "environ_get") EXCEPT !.env_key = env_key]
       IN IF env_key.isNone \/ env_key.s = ""
          THEN emit_in_try(r1,
                 << <<"error", JStr("circleguard_key_missing")>>,
                    <<"detail", JStr("Circleguard requires a key. Set CIRCLEGUARD_KEY in environment.")>> >>, 1)
          ELSE [r1 EXCEPT !.pc = "construct"]
  ELSE [r EXCEPT !.pc = "construct"]

(* variant: the key is read but not handed to the constructor *)
ctor_args_nokey(r) == <<>>

(* the arguments of the constructor call of line 63 or 65 *)
ctor_args(r) == IF "key" \in r.params THEN <<r.env_key.s>> ELSE <<>>

(* lines 63-65; e is what the constructor raises (NoExc: it returns) *)
construct(r, e) ==
  LET r1 == [At(r, "construct") EXCEPT !.ctorCalls = Append(@, ctor_args(r))]
  IN IF e = NoExc THEN [r1 EXCEPT !.pc = "wrap"]
     ELSE except_Exception(Raise(r1, "construct", e), e)

(* variant: ReplayPath built outside the try block *)
wrap_replay_unguarded(r, e) ==
  LET r1 == [At(r, "wrap") EXCEPT !.rpCalls = Append(@, PathStr(r.replay_path))]
  IN IF e = NoExc THEN [r1 EXCEPT !.pc = "ur"]
     ELSE Uncaught(Raise(r1, "wrap", e), e)

(* line 67 *)
wrap_replay(r, e) ==
  LET r1 == [At(r, "wrap") EXCEPT !.rpCalls = Append(@, PathStr(r.replay_path))]
  IN IF e = NoExc THEN [r1 EXCEPT !.pc = "ur"]
     ELSE except_Exception(Raise(r1, "wrap", e), e)

(* variant: a failed UR call is tried once more before giving up *)
call_ur_retry(r, e, v) ==
  LET r1 == [At(r, "ur") EXCEPT !.urCalls = @ + 1]
  IN IF e = NoExc THEN [r1 EXCEPT !.ur_value = v, !.pc = "emit_ur"]
     ELSE except_Exception(Raise([r1 EXCEPT !.urCalls = @ + 1], "ur", e), e)

(* line 68; v is the value cg.ur returns when it does not raise *)
call_ur(r, e, v) ==
  LET r1 == [At(r, "ur") EXCEPT !.urCalls = @ + 1]
  IN IF e = NoExc THEN [r1 EXCEPT !.ur_value = v, !.pc = "emit_ur"]
     ELSE except_Exception(Raise(r1, "ur", e), e)

(* variant: `if ur_value` in place of `if ur_value is not None` *)
emit_ur_truthy(r) ==
  LET r1 == At(r, "emit_ur")
      f == float(r.ur_value)
  IN IF r.ur_value.t = "None" \/ r.ur_value = PyInt(0)
     THEN emit_in_try(r1, << <<"ur", JNull>> >>, 0)
     ELSE IF f.exc # NoExc THEN except_Exception(Raise(r1, "float", f.exc), f.exc)
     ELSE emit_in_try(r1, << <<"ur", f.val>> >>, 0)

(* line 69 *)
emit_ur(r) ==
  LET r1 == At(r, "emit_ur")
      f == float(r.ur_value)
  IN IF r.ur_value.t = "None" THEN emit_in_try(r1, << <<"ur", JNull>> >>, 0)
     ELSE IF f.exc # NoExc THEN except_Exception(Raise(r1, "float", f.exc), f.exc)
     ELSE emit_in_try(r1, << <<"ur", f.val>> >>, 0)

-----------------------------------------------------------------------------
(* Actions: every invocation at the statement executes it.                 *)

AtPc(p) == {i \in Runs : proc[i].pc = p}

Inputs == <<argv, fsOutcome, importOutcome, sigOutcome, environ>>

CheckArgv ==
  /\ AtPc("argv") # {}
  /\ proc' = [i \in Runs |-> IF i \in AtPc("argv") THEN check_argv(proc[i])
                             ELSE proc[i]]
  /\ UNCHANGED Inputs

ResolvePath ==
  /\ AtPc("resolve") # {}
  /\ proc' = [i \in Runs |-> IF i \in AtPc("resolve") THEN resolve_path(proc[i])
                             ELSE proc[i]]
  /\ UNCHANGED Inputs

ImportCircleguard ==
  /\ AtPc("import") # {}
  /\ proc' = [i \in Runs |-> IF i \in AtPc("import")
                             THEN import_circleguard(proc[i]) ELSE proc[i]]
  /\ UNCHANGED Inputs

InspectSignature ==
  /\ AtPc("signature") # {}
  /\ proc' = [i \in Runs |-> IF i \in AtPc("signature")
                             THEN inspect_signature(proc[i]) ELSE proc[i]]
  /\ UNCHANGED Inputs

KeyCheck ==
  /\ AtPc("key") # {}
  /\ proc' = [i \in Runs |-> IF i \in AtPc("key")
                             THEN key_check(proc[i], environ[i]) ELSE proc[i]]
  /\ UNCHANGED Inputs

(* what a library call does in each invocation at statement p, args[i]    *)
(* being the arguments of invocation i: the library is the same in both,   *)
(* so equal arguments get equal outcomes                                   *)
LibOutcomes(p, Outs, dflt, args) ==
  { o \in [Runs -> Outs] :
      /\ \A i \in Runs \ AtPc(p) : o[i] = dflt
      /\ \A i, j \in AtPc(p) : args[i] = args[j] => o[i] = o[j] }

Construct ==
  /\ AtPc("construct") # {}
  /\ \E o \in LibOutcomes("construct", {NoExc} \cup LibExcs, NoExc,
                          [i \in Runs |-> ctor_args(proc[i])]) :
       proc' = [i \in Runs |-> IF i \in AtPc("construct")
                               THEN construct(proc[i], o[i]) ELSE proc[i]]
  /\ UNCHANGED Inputs

rp_args(r) == r.replay_path

WrapReplay ==
  /\ AtPc("wrap") # {}
  /\ \E o \in LibOutcomes("wrap", {NoExc} \cup LibExcs, NoExc,
                          [i \in Runs |-> rp_args(proc[i])]) :
       proc' = [i \in Runs |-> IF i \in AtPc("wrap")
                               THEN wrap_replay(proc[i], o[i]) ELSE proc[i]]
  /\ UNCHANGED Inputs

(* cg.ur(rp) depends on the client, hence on the constructor's arguments *)
ur_args(r) == <<r.ctorCalls, r.rpCalls>>

UrOutcomes == {[exc |-> e, val |-> PyNone] : e \in LibExcs}
              \cup {[exc |-> NoExc, val |-> v] : v \in UrValues}

CallUR ==
  /\ AtPc("ur") # {}
  /\ \E o \in LibOutcomes("ur", UrOutcomes, [exc |-> NoExc, val |-> PyNone],
                          [i \in Runs |-> ur_args(proc[i])]) :
       proc' = [i \in Runs |-> IF i \in AtPc("ur")
                               THEN call_ur(proc[i], o[i].exc, o[i].val)
                               ELSE proc[i]]
  /\ UNCHANGED Inputs

EmitUR ==
  /\ AtPc("emit_ur") # {}
  /\ proc' = [i \in Runs |-> IF i \in AtPc("emit_ur") THEN emit_ur(proc[i])
                             ELSE proc[i]]
  /\ UNCHANGED Inputs

Next ==
  \/ CheckArgv
  \/ ResolvePath
  \/ ImportCircleguard
  \/ InspectSignature
  \/ KeyCheck
  \/ Construct
  \/ WrapReplay
  \/ CallUR
  \/ EmitUR

Spec == Init /\ [][Next]_vars

TypeOK ==
  /\ argv \in Argvs
  /\ \A i \in Runs :
       /\ proc[i].pc \in {"argv", "resolve", "import", "signature", "key",
                          "construct", "wrap", "ur", "emit_ur", "done"}
       /\ proc[i].exitCode \in {-1, 0, 1}

-----------------------------------------------------------------------------
(* Vocabulary of the properties.                                           *)

Done(i) == proc[i].pc = "done"

HasKey(payload, k) == \E n \in 1..Len(payload) : payload[n][1] = k

Field(payload, k) ==
  payload[CHOOSE n \in 1..Len(payload) : payload[n][1] = k][2]

(* the error tag of the first payload the run wrote, "" when there is none *)
Tag(i) ==
  IF proc[i].emitted # <<>> /\ HasKey(proc[i].emitted[1], "error")
  THEN Field(proc[i].emitted[1], "error").s ELSE ""

(* the text is JSON a standard parser accepts: no NaN or Infinity token *)
ValidJSON(payload) ==
  \A n \in 1..Len(payload) : payload[n][2].t \notin {"nan", "inf"}

(* statement `step` raised in run i *)
RaisedAt(i, step) ==
  \E n \in 1..Len(proc[i].raised) : proc[i].raised[n][1] = step

Ran(i, step) == \E n \in 1..Len(proc[i].steps) : proc[i].steps[n] = step

KeyDeclared == ~sigOutcome.raises /\ \E q \in sigOutcome.params : q.name = "key"

KeyUnset(i) == "CIRCLEGUARD_KEY" \notin DOMAIN environ[i]

Rank(step) ==
  CASE step = "argv" -> 1 [] step = "resolve" -> 2 [] step = "import" -> 3
    [] step = "signature" -> 4 [] step = "environ_get" -> 5
    [] step = "construct" -> 6 [] step = "wrap" -> 7 [] step = "ur" -> 8
    [] step = "emit_ur" -> 9

-----------------------------------------------------------------------------
(* C1: every run ends with exactly one emission of one valid JSON object   *)
(* -- never zero, never two.                                               *)
C1_ExactlyOneEmission ==
  \A i \in Runs :
    Done(i) => /\ Len(proc[i].emitted) = 1
               /\ ValidJSON(proc[i].emitted[1])
               /\ proc[i].uncaught = NoExc

(* C2: with no positional argument the output is exactly                   *)
(* {"error": "missing_replay_path", "argv": []}, the exit code is 1 and    *)
(* nothing but the argument check ran.                                     *)
C2_MissingArgument ==
  \A i \in Runs :
    (Done(i) /\ Len(argv) < 2) =>
      /\ proc[i].stdout = << "{\"error\": \"missing_replay_path\", \"argv\": []}" >>
      /\ proc[i].exitCode = 1
      /\ proc[i].steps = <<"argv">>
      /\ proc[i].ctorCalls = <<>> /\ proc[i].rpCalls = <<>>
      /\ proc[i].urCalls = 0

C2_Witness == \E i \in Runs : Done(i) /\ Len(argv) < 2 /\ proc[i].stdout # <<>>

(* C3: a path that does not name an existing file yields replay_not_found  *)
(* with the home-expanded path, exit code 1, and the library is never      *)
(* loaded or called.                                                       *)
C3_ReplayNotFound ==
  \A i \in Runs :
    (Done(i) /\ Len(argv) >= 2 /\ fsOutcome # "ok") =>
      /\ Len(proc[i].emitted) = 1
      /\ Tag(i) = "replay_not_found"
      /\ HasKey(proc[i].emitted[1], "path")
      /\ Field(proc[i].emitted[1], "path") = JStr(PathStr(expanduser(argv[2]).path))
      /\ proc[i].exitCode = 1
      /\ ~Ran(i, "import")

(* C4 as stated: with a key parameter declared, an unset CIRCLEGUARD_KEY   *)
(* gives circleguard_key_missing and exit code 1, and a set one -- any     *)
(* value -- is handed to the constructor as its key.                       *)
C4_AnySetValue ==
  \A i \in Runs :
    (Done(i) /\ KeyDeclared /\ Ran(i, "environ_get")) =>
      IF KeyUnset(i)
      THEN Tag(i) = "circleguard_key_missing" /\ proc[i].exitCode = 1
      ELSE /\ proc[i].ctorCalls = << <<environ[i]["CIRCLEGUARD_KEY"]>> >>
           /\ Tag(i) # "circleguard_key_missing"

(* C4 amended: an unset or empty CIRCLEGUARD_KEY gives                     *)
(* circleguard_key_missing with exit code 1 and no constructor call; a     *)
(* non-empty one is the single argument of the single constructor call,    *)
(* and the run goes on to the wrapper and the UR call unless one of them   *)
(* raises.                                                                 *)
C4_NonEmptyKey ==
  \A i \in Runs :
    (Done(i) /\ KeyDeclared /\ Ran(i, "environ_get")) =>
      IF KeyUnset(i) \/ environ[i]["CIRCLEGUARD_KEY"] = ""
      THEN /\ Tag(i) = "circleguard_key_missing"
           /\ Len(proc[i].emitted) = 1
           /\ proc[i].exitCode = 1
           /\ proc[i].ctorCalls = <<>>
      ELSE /\ proc[i].ctorCalls = << <<environ[i]["CIRCLEGUARD_KEY"]>> >>
           /\ Tag(i) # "circleguard_key_missing"
           /\ (~RaisedAt(i, "construct") => Ran(i, "wrap"))
           /\ (~RaisedAt(i, "construct") /\ ~RaisedAt(i, "wrap")
                 => proc[i].urCalls = 1)

C4_Witness ==
  \E i \in Runs :
    /\ Done(i) /\ KeyDeclared
    /\ ~KeyUnset(i) /\ environ[i]["CIRCLEGUARD_KEY"] # ""
    /\ proc[i].urCalls = 1

(* the exceptions raised inside the guarded block of run i *)
GuardedRaises(i) ==
  { proc[i].raised[n][2] : n \in { m \in 1..Len(proc[i].raised) :
        proc[i].raised[m][1] \in {"construct", "wrap", "ur", "float"} } }

(* C5 as stated: an exception raised by the constructor, the wrapper, the  *)
(* UR call or float() gives error ur_failed with a non-empty detail, a     *)
(* trace, and exit code 1.                                                 *)
C5_NonEmptyDetail ==
  \A i \in Runs :
    (Done(i) /\ GuardedRaises(i) # {}) =>
      /\ Len(proc[i].emitted) = 1
      /\ Tag(i) = "ur_failed"
      /\ HasKey(proc[i].emitted[1], "detail")
      /\ Field(proc[i].emitted[1], "detail").s # ""
      /\ HasKey(proc[i].emitted[1], "trace")
      /\ proc[i].exitCode = 1

(* C5 amended: such an exception gives error ur_failed, a detail field     *)
(* equal to the exception's message (empty when it has none), a non-empty  *)
(* trace, and exit code 1.                                                 *)
C5_DetailIsMessage ==
  \A i \in Runs :
    (Done(i) /\ GuardedRaises(i) # {}) =>
      /\ Len(proc[i].emitted) = 1
      /\ Tag(i) = "ur_failed"
      /\ HasKey(proc[i].emitted[1], "detail")
      /\ \E e \in GuardedRaises(i) :
           Field(proc[i].emitted[1], "detail") = JStr(e.msg)
      /\ HasKey(proc[i].emitted[1], "trace")
      /\ Field(proc[i].emitted[1], "trace").s # ""
      /\ proc[i].exitCode = 1
      /\ proc[i].uncaught = NoExc

C5_Witness ==
  \E i \in Runs :
    /\ Done(i) /\ RaisedAt(i, "wrap")
    /\ Tag(i) = "ur_failed"
    /\ Field(proc[i].emitted[1], "detail").s = ""

(* cg.ur returned in run i *)
UrReturned(i) == Ran(i, "ur") /\ ~RaisedAt(i, "ur")

(* the text of a number held in tenths *)
NumberText(tenths) ==
  CASE tenths = 0  -> "0.0"  [] tenths = 5  -> "0.5"
    [] tenths = 10 -> "1.0"  [] tenths = 15 -> "1.5"
    [] tenths = 20 -> "2.0"  [] tenths = 25 -> "2.5"
    [] tenths = 30 -> "3.0"  [] tenths = 35 -> "3.5"

(* the success text for the value v that cg.ur returned *)
UrText(v) ==
  CASE v.t = "None"  -> "{\"ur\": null}"
    [] v.t = "int"   -> "{\"ur\": " \o NumberText(10 * v.n) \o "}"
    [] v.t = "float" -> "{\"ur\": " \o NumberText(v.n) \o "}"
    [] v.t = "nan"   -> "{\"ur\": NaN}"
    [] v.t = "inf"   -> "{\"ur\": Infinity}"
    [] OTHER         -> "{\"ur\": ?}"

(* C6 as stated: whenever the UR call returns, the exit code is 0 and the  *)
(* output is exactly {"ur": v}, v null iff None was returned.              *)
C6_EveryReturnSucceeds ==
  \A i \in Runs :
    (Done(i) /\ UrReturned(i)) =>
      /\ proc[i].exitCode = 0
      /\ proc[i].stdout = << UrText(proc[i].ur_value) >>
      /\ ~HasKey(proc[i].emitted[1], "error")

(* C6 amended: whenever the UR call returns None or a value float()        *)
(* accepts, the exit code is 0 and the output is exactly {"ur": v}: v is   *)
(* null iff None was returned, else the float of the returned number (0    *)
(* gives 0.0); there is no error key.  A value float() rejects gives       *)
(* ur_failed with exit code 1.                                             *)
C6_ConvertibleReturnSucceeds ==
  \A i \in Runs :
    (Done(i) /\ UrReturned(i)) =>
      IF proc[i].ur_value.t \in {"str", "bigint"}
      THEN Tag(i) = "ur_failed" /\ proc[i].exitCode = 1
      ELSE /\ proc[i].exitCode = 0
           /\ proc[i].stdout = << UrText(proc[i].ur_value) >>
           /\ (proc[i].stdout = << "{\"ur\": null}" >>
                 <=> proc[i].ur_value = PyNone)
           /\ ~HasKey(proc[i].emitted[1], "error")

C6_Witness ==
  \E i \in Runs :
    /\ Done(i) /\ UrReturned(i) /\ proc[i].ur_value = PyInt(0)
    /\ proc[i].stdout = << "{\"ur\": 0.0}" >>

(* C7: every error raised in a step is reported as an error payload with   *)
(* exit code 1; the run neither goes on to a later step nor ends with an   *)
(* uncaught exception.                                                     *)
C7_EveryErrorReported ==
  \A i \in Runs :
    (Done(i) /\ proc[i].raised # <<>>) =>
      /\ proc[i].uncaught = NoExc
      /\ Len(proc[i].emitted) = 1
      /\ HasKey(proc[i].emitted[1], "error")
      /\ proc[i].exitCode = 1
      /\ \A n \in 1..Len(proc[i].steps) :
           Rank(proc[i].steps[n])
             <= Rank(IF proc[i].raised[1][1] = "float" THEN "emit_ur"
                     ELSE proc[i].raised[1][1])

(* C8: the statements run in the fixed order; the error tag is that of the *)
(* earliest failing step; nothing of a later step happens after a failure; *)
(* the UR entry point is called at most once.                              *)
C8_OrderAndShortCircuit ==
  \A i \in Runs :
    /\ \A m, n \in 1..Len(proc[i].steps) :
         m < n => Rank(proc[i].steps[m]) < Rank(proc[i].steps[n])
    /\ proc[i].urCalls <= 1
    /\ Len(proc[i].ctorCalls) <= 1
    /\ (proc[i].urCalls = 1 => Len(proc[i].ctorCalls) = 1 /\ Len(proc[i].rpCalls) = 1)
    /\ (Done(i) /\ Len(argv) < 2) => Tag(i) = "missing_replay_path"
    /\ (Done(i) /\ Tag(i) # "") =>
         /\ (Tag(i) = "replay_not_found") =
              (Len(argv) >= 2 /\ fsOutcome = "FileNotFoundError")
         /\ (Tag(i) = "import_failed") =
              (Len(argv) >= 2 /\ fsOutcome = "ok" /\ importOutcome # NoExc)
         /\ (Tag(i) = "circleguard_key_missing") =>
              (Len(argv) >= 2 /\ fsOutcome = "ok" /\ importOutcome = NoExc)
         /\ (Tag(i) = "ur_failed") =>
              /\ Len(argv) >= 2 /\ fsOutcome = "ok" /\ importOutcome = NoExc
              /\ KeyDeclared => ~KeyUnset(i) /\ environ[i]["CIRCLEGUARD_KEY"] # ""
    /\ Done(i) =>
         /\ Tag(i) = "missing_replay_path" => proc[i].steps = <<"argv">>
         /\ Tag(i) = "replay_not_found" => proc[i].steps = <<"argv", "resolve">>
         /\ Tag(i) = "import_failed"
              => proc[i].steps = <<"argv", "resolve", "import">>
         /\ Tag(i) = "circleguard_key_missing"
              => proc[i].steps = <<"argv", "resolve", "import", "signature",
                                   "environ_get">>
         /\ Tag(i) = "ur_failed" /\ RaisedAt(i, "construct")
              => ~Ran(i, "wrap") /\ proc[i].urCalls = 0
         /\ Tag(i) = "ur_failed" /\ RaisedAt(i, "wrap") => proc[i].urCalls = 0
         /\ Tag(i) = "ur_failed" /\ RaisedAt(i, "ur")
              => proc[i].urCalls = 1 /\ ~Ran(i, "emit_ur")

C8_Witness ==
  \E i \in Runs :
    /\ Done(i) /\ Tag(i) = "replay_not_found" /\ importOutcome # NoExc
    /\ \E j \in Runs : Done(j) /\ proc[j].steps = <<"argv", "resolve">>

(* C9: without a key parameter (or without a signature) the constructor is *)
(* called with no arguments and CIRCLEGUARD_KEY has no influence on output *)
(* or exit code; an optional key parameter does not produce                *)
(* circleguard_key_missing when the variable is unset.                     *)
C9_KeyOnlyIfDemanded ==
  /\ ~KeyDeclared =>
       /\ \A i \in Runs : \A n \in 1..Len(proc[i].ctorCalls) :
            proc[i].ctorCalls[n] = <<>>
       /\ \A i, j \in Runs :
            (Done(i) /\ Done(j)) => /\ proc[i].stdout = proc[j].stdout
                                    /\ proc[i].exitCode = proc[j].exitCode
  /\ \A i \in Runs :
       (Done(i) /\ sigOutcome = Sig(FALSE, {Param("key", TRUE)}) /\ KeyUnset(i))
         => Tag(i) # "circleguard_key_missing"

(* the first two parts of C9 alone: no key parameter means a constructor   *)
(* call without arguments and no influence of CIRCLEGUARD_KEY              *)
C9_NoKeyParameter ==
  ~KeyDeclared =>
    /\ \A i \in Runs : \A n \in 1..Len(proc[i].ctorCalls) :
         proc[i].ctorCalls[n] = <<>>
    /\ \A i \in Runs : ~Ran(i, "environ_get")
    /\ \A i, j \in Runs :
         (Done(i) /\ Done(j)) => /\ proc[i].stdout = proc[j].stdout
                                 /\ proc[i].exitCode = proc[j].exitCode

(* C10: an emission made inside the guarded block is final -- no second    *)
(* payload follows it, its exit code stands, and after                     *)
(* circleguard_key_missing neither the constructor nor the UR call runs.   *)
C10_EmissionInTryIsFinal ==
  \A i \in Runs :
    (proc[i].emitted # <<>>
       /\ ( Tag(i) = "circleguard_key_missing"
            \/ HasKey(proc[i].emitted[1], "ur") )) =>
      /\ Len(proc[i].emitted) = 1
      /\ Len(proc[i].stdout) = 1
      /\ Done(i)
      /\ proc[i].exitCode = (IF HasKey(proc[i].emitted[1], "ur") THEN 0 ELSE 1)
      /\ proc[i].uncaught = NoExc
      /\ Tag(i) = "circleguard_key_missing"
           => proc[i].ctorCalls = <<>> /\ proc[i].urCalls = 0 /\ proc[i].rpCalls = <<>>

C10_Witness ==
  \E i, j \in Runs :
    /\ Done(i) /\ Tag(i) = "circleguard_key_missing"
    /\ Done(j) /\ HasKey(proc[j].emitted[1], "ur") /\ proc[j].exitCode = 0

====
